---- MODULE Spec2Model ----
(***************************************************************************)
(* Model of crates/bevy_animation/src/lib.rs: keyframe lookup on a         *)
(* VariableCurve, evaluation of a clip's curves on one animation target,   *)
(* and the AnimationPlayer playback state machine (start / play /          *)
(* transitions / pause / advance_animations).                              *)
(*                                                                         *)
(* Numbers: every f32 time (timestamps, seek_time, elapsed, delta) is an   *)
(* integer number of time units, and a blend weight is an integer number   *)
(* of 1/WeightOne parts, so the arithmetic of the code is exact here;      *)
(* f32 rounding, NaN and infinities are outside the model.                 *)
(***************************************************************************)
EXTENDS Integers, Sequences, FiniteSets, TLC

VARIABLES
    curve,            \* SpecCurve: the VariableCurve being searched
    seek,             \* SpecCurve: the seek_time argument
    result,           \* SpecCurve: what find_current_keyframe returned
    overflow_checks,  \* build option: TRUE = usize underflow panics, FALSE = wraps
    apply_curves,     \* SpecApply: clip.curves_for_target(target.id)
    apply_seek,       \* SpecApply: self.seek_time of the PlayingAnimation
    apply_weight,     \* SpecApply: the weight argument of apply
    target_context,   \* SpecApply: the target's transform / morph weights
    apply_outcome,    \* SpecApply: result of the last apply call
    paused,           \* AnimationPlayer.paused
    animation,        \* AnimationPlayer.animation
    transitions,      \* AnimationPlayer.transitions
    op,               \* the last player operation and its arguments
    born,             \* number of transitions created so far
    steps,            \* number of operations and ticks so far
    playing,          \* SpecPlayback: the PlayingAnimation that update is called on
    clip_len,         \* SpecPlayback: the duration of the clip it plays
    update_call,      \* SpecPlayback: the last update call and the state it found
    steady,           \* SpecPlayback: every call so far was a tick of that clip
    players,          \* SpecFrame: the AnimationPlayer of every player entity
    targets,          \* SpecFrame: binding, fields and progress of every target entity
    frame,            \* SpecFrame: the position of the schedule in the frame
    clip_asset,       \* SpecClip: the AnimationClip being built
    target_ids        \* SpecTargetId: two name paths and the ids derived from them

curveVars  == <<curve, seek, result>>
applyVars  == <<apply_curves, apply_seek, apply_weight, target_context, apply_outcome>>
playerVars == <<paused, animation, transitions, op, born, steps>>
playbackVars == <<playing, clip_len, update_call, steady>>
frameVars  == <<players, targets, frame>>
assetVars  == <<clip_asset, target_ids>>
vars == <<curve, seek, result, overflow_checks,
          apply_curves, apply_seek, apply_weight, target_context, apply_outcome,
          paused, animation, transitions, op, born, steps,
          playing, clip_len, update_call, steady,
          players, targets, frame,
          clip_asset, target_ids>>

----------------------------------------------------------------------------
(* Bounds *)

MaxTime == 4            \* timestamps are drawn from 0..MaxTime
MaxKeyframes == 3       \* a curve has 0..MaxKeyframes timestamps
MaxTargetCount == 2     \* morph targets per Weights keyframe: 1..MaxTargetCount
MaxApplyKeyframes == 2  \* SpecApply: a curve has 1..MaxApplyKeyframes timestamps
MaxCurves == 2          \* SpecApply: a target has 1..MaxCurves curves in the clip
MaxClips == 1           \* SpecPlayer: loaded clips 1..MaxClips (handle 0 is not loaded)
MaxDelta == 2           \* SpecPlayer: a tick lasts 0..MaxDelta time units
MaxSpeed == 2           \* SpecPlayer: set_speed takes -1, 1 or MaxSpeed
MaxCount == 2           \* SpecPlayer: set_repeat takes Never, Forever or Count(MaxCount)
MaxTransitionDuration == 2  \* SpecPlayer: transitions last 1..MaxTransitionDuration
MaxBorn == 2            \* SpecPlayer: transitions created in one run
MaxSteps == 4           \* SpecPlayer: operations and ticks in one run
MaxDuration == 3        \* SpecPlayback: clip durations 1..MaxDuration
MaxElapsed == 6         \* SpecPlayback: update is called while elapsed stays within this
MaxFrames == 2          \* SpecFrame: frames in one run
MaxAdded == 2           \* SpecClip: add_curve_to_target calls in one run
MaxNameLen == 2         \* SpecTargetId: a Name has 1..MaxNameLen bytes
MaxPathLen == 2         \* SpecTargetId: a path has 0..MaxPathLen names

\* usize arithmetic wraps modulo this in builds without overflow checks
\* (2^30 stands for 2^64: far above every length of the model).
UsizeModulus == 1073741824

----------------------------------------------------------------------------
(* Curves *)

Interpolations == {"Linear", "Step", "CubicSpline"}
KeyframeKinds  == {"Rotation", "Translation", "Scale", "Weights"}

IsStrictlyIncreasing(s) == \A i \in 1..(Len(s) - 1) : s[i] < s[i + 1]

TimestampSeqs ==
    {s \in UNION {[1..n -> 0..MaxTime] : n \in 0..MaxKeyframes} : IsStrictlyIncreasing(s)}

\* Payload entries per timestamp: three for CubicSpline (tangent_in, value,
\* tangent_out), times target_count for Weights.
EntriesPerKeyframe(interpolation, kind, target_count) ==
    (IF interpolation = "CubicSpline" THEN 3 ELSE 1)
        * (IF kind = "Weights" THEN target_count ELSE 1)

\* The value stored at payload position k (1-based).
KeyValue(k) == 3 * k

\* A VariableCurve whose payload has the layout its interpolation and kind ask for.
VariableCurve(ts, interpolation, kind, target_count) ==
    [keyframe_timestamps |-> ts,
     keyframes |-> [k \in 1..(Len(ts) * EntriesPerKeyframe(interpolation, kind, target_count))
                        |-> KeyValue(k)],
     kind |-> kind,
     interpolation |-> interpolation,
     target_count |-> IF kind = "Weights" THEN target_count ELSE 1]

Curves ==
    {VariableCurve(ts, i, k, tc) :
        ts \in TimestampSeqs, i \in Interpolations, k \in KeyframeKinds, tc \in 1..MaxTargetCount}

\* Keyframes::len: the number of payload entries.
KeyframesLen(c) == Len(c.keyframes)

\* The logical keyframe count of a curve.
KeyframeCount(c) ==
    IF KeyframesLen(c) = 0 THEN 0
    ELSE KeyframesLen(c) \div EntriesPerKeyframe(c.interpolation, c.kind, c.target_count)

----------------------------------------------------------------------------
(* find_current_keyframe *)

None    == [tag |-> "None", idx |-> 0]
Some(i) == [tag |-> "Some", idx |-> i]
Panic   == [tag |-> "Panic", idx |-> 0]
Unset   == [tag |-> "Unset", idx |-> 0]

\* slice::binary_search_by on strictly increasing timestamps, 0-based:
\* Ok(i) when ts[i] = x, otherwise Err(number of elements below x).
binary_search(ts, x) ==
    IF \E i \in 1..Len(ts) : ts[i] = x
    THEN [ok |-> TRUE, idx |-> (CHOOSE i \in 1..Len(ts) : ts[i] = x) - 1]
    ELSE [ok |-> FALSE, idx |-> Cardinality({i \in 1..Len(ts) : ts[i] < x})]

\* self.keyframes.len() - 1 in a build without overflow checks.
last_keyframe_of(c) == (KeyframesLen(c) - 1) % UsizeModulus

\* The arms of the match for an exact hit Ok(n): None on the last keyframe.
exact_match_arm(n, last_keyframe) ==
    IF n >= last_keyframe THEN None ELSE Some(n)

\* Faulty variant for C3: the previous keyframe is not taken, the insertion point is returned.
inexact_match_arm_keeps_insertion_point(n, last_keyframe) ==
    IF n = 0 THEN None
    ELSE IF n > last_keyframe THEN None
    ELSE Some(n)

\* Faulty variant for C4: a seek_time before the first timestamp is clamped to keyframe 0.
inexact_match_arm_clamps_unstarted(n, last_keyframe) ==
    IF n = 0 THEN Some(0)
    ELSE IF n > last_keyframe THEN None
    ELSE Some(n - 1)

\* The arms of the match for a miss Err(n): None before the start and after
\* the last keyframe, otherwise the keyframe before the insertion point.
inexact_match_arm(n, last_keyframe) ==
    IF n = 0 THEN None
    ELSE IF n > last_keyframe THEN None
    ELSE Some(n - 1)

find_current_keyframe(c, seek_time, checks) ==
    LET search_result == binary_search(c.keyframe_timestamps, seek_time)
        last_keyframe == last_keyframe_of(c)
        step_start == IF search_result.ok
                      THEN exact_match_arm(search_result.idx, last_keyframe)
                      ELSE inexact_match_arm(search_result.idx, last_keyframe)
    IN  IF checks /\ KeyframesLen(c) = 0 THEN Panic
        ELSE IF step_start.tag = "Some" /\ ~(step_start.idx < Len(c.keyframe_timestamps))
            THEN Panic
        ELSE step_start

----------------------------------------------------------------------------
(* Exact arithmetic for sampled values: a value is a fraction <<n, d>> in    *)
(* lowest terms with d > 0.                                                  *)

Abs(x) == IF x < 0 THEN -x ELSE x

RECURSIVE GCD(_, _)
GCD(a, b) == IF b = 0 THEN a ELSE GCD(b, a % b)

Rat(n, d) ==
    LET g == GCD(Abs(n), Abs(d))
        sgn == IF d < 0 THEN -1 ELSE 1
    IN  <<sgn * (n \div g), sgn * (d \div g)>>

RInt(n) == <<n, 1>>
RAdd(a, b) == Rat(a[1] * b[2] + b[1] * a[2], a[2] * b[2])
RSub(a, b) == Rat(a[1] * b[2] - b[1] * a[2], a[2] * b[2])
RMul(a, b) == Rat(a[1] * b[1], a[2] * b[2])
RDiv(a, b) == Rat(a[1] * b[2], a[2] * b[1])

\* Vec3::lerp / f32::lerp, and Quat::slerp on rotations about one fixed axis
\* (a rotation is its angle; the sign flip and the normalisation of
\* quaternions are not modelled): self + (rhs - self) * s.
lerp(from, to, s) == RAdd(from, RMul(RSub(to, from), s))

\* Faulty variant for C26: divides by the end of the range, not by its length.
inverse_lerp_over_end(a, b, value) == RDiv(RSub(value, a), b)

\* f32::inverse_lerp(a, b, value)
inverse_lerp(a, b, value) == RDiv(RSub(value, a), RSub(b, a))

\* cubic_spline_interpolation
cubic_spline_interpolation(value_start, tangent_out_start, tangent_in_end, value_end, u, step_duration) ==
    LET u2 == RMul(u, u)
        u3 == RMul(u2, u)
    IN  RAdd(RAdd(RAdd(
            RMul(value_start, RAdd(RSub(RMul(RInt(2), u3), RMul(RInt(3), u2)), RInt(1))),
            RMul(RMul(tangent_out_start, step_duration), RAdd(RSub(u3, RMul(RInt(2), u2)), u))),
            RMul(value_end, RAdd(RMul(RInt(-2), u3), RMul(RInt(3), u2)))),
            RMul(RMul(tangent_in_end, step_duration), RSub(u3, u2)))

----------------------------------------------------------------------------
(* The evaluator: PlayingAnimation::apply on one target *)

\* AnimationTargetContext: the transform and morph weights of the target,
\* each of which may be missing.
TargetContext(has_transform, has_morph_weights, target_count) ==
    [has_transform |-> has_transform,
     rotation |-> RInt(0),
     translation |-> RInt(0),
     scale |-> RInt(1),
     has_morph_weights |-> has_morph_weights,
     morph_weights |-> [k \in 1..(IF has_morph_weights THEN target_count ELSE 0) |-> RInt(0)]]

\* What an apply call has done so far: the target's fields, the curves (by
\* position in the list) whose evaluation began, the number of error!
\* diagnostics, and whether an index was out of range.
ApplyState(ctx) ==
    [status |-> "ok", ctx |-> ctx, evaluated |-> <<>>, diagnostics |-> 0]

Panicked(st) == [st EXCEPT !.status = "panic"]

\* keyframes[i] (0-based) exists.
InRange(keyframes, i) == 0 <= i /\ i < Len(keyframes)

\* lerp_morph_weights: zip stops at the shorter of the two.
lerp_morph_weights(weights, keyframe, key_lerp) ==
    [k \in 1..Len(weights) |->
        IF k <= Len(keyframe) THEN lerp(weights[k], keyframe[k], key_lerp) ELSE weights[k]]

\* get_keyframe: the slice keyframes[start..end] (0-based, end excluded) is in range.
get_keyframe_in_range(target_count, keyframes, key_index) ==
    target_count * (key_index + 1) <= Len(keyframes)

get_keyframe(target_count, keyframes, key_index) ==
    [k \in 1..target_count |-> RInt(keyframes[target_count * key_index + k])]

\* The field of the transform a payload kind drives.
FieldOf(kind) ==
    CASE kind = "Rotation" -> "rotation"
      [] kind = "Translation" -> "translation"
      [] kind = "Scale" -> "scale"

\* transform.<field> = transform.<field>.lerp(sample, weight)
BlendField(st, kind, sample, weight) ==
    [st EXCEPT !.ctx[FieldOf(kind)] = lerp(st.ctx[FieldOf(kind)], sample, weight)]

apply_single_keyframe(c, weight, st) ==
    IF c.kind = "Weights"
    THEN IF ~st.ctx.has_morph_weights
         THEN [st EXCEPT !.diagnostics = @ + 1]
         ELSE LET target_count == Len(st.ctx.morph_weights)
              IN  IF ~get_keyframe_in_range(target_count, c.keyframes, 0) THEN Panicked(st)
                  ELSE [st EXCEPT !.ctx.morph_weights =
                            lerp_morph_weights(@, get_keyframe(target_count, c.keyframes, 0), weight)]
    ELSE IF ~st.ctx.has_transform THEN st
         ELSE IF ~InRange(c.keyframes, 0) THEN Panicked(st)
         ELSE BlendField(st, c.kind, RInt(c.keyframes[1]), weight)

\* The payload positions (0-based) an interpolation mode reads for the
\* step that starts at step_start.
PositionsRead(interpolation, step_start) ==
    CASE interpolation = "Step" -> {step_start}
      [] interpolation = "Linear" -> {step_start, step_start + 1}
      [] interpolation = "CubicSpline" ->
            {step_start * 3 + 1, step_start * 3 + 2, (step_start + 1) * 3, (step_start + 1) * 3 + 1}

\* The value an interpolation mode samples; entry[i] is payload entry i
\* (0-based) of the positions read.
Sample(interpolation, entry, step_start, u, duration) ==
    CASE interpolation = "Step" -> entry[step_start]
      [] interpolation = "Linear" -> lerp(entry[step_start], entry[step_start + 1], u)
      [] interpolation = "CubicSpline" ->
            cubic_spline_interpolation(
                entry[step_start * 3 + 1], entry[step_start * 3 + 2],
                entry[(step_start + 1) * 3], entry[(step_start + 1) * 3 + 1],
                u, duration)

apply_tweened_keyframe(c, step_start, weight, u, duration, st) ==
    IF c.kind = "Weights"
    THEN IF ~st.ctx.has_morph_weights THEN st
         ELSE LET target_count == Len(st.ctx.morph_weights)
                  sampled == [k \in 1..target_count |->
                                LET entry == [i \in PositionsRead(c.interpolation, step_start)
                                                |-> RInt(c.keyframes[target_count * i + k])]
                                IN  Sample(c.interpolation, entry, step_start, u, duration)]
              IN  IF \E i \in PositionsRead(c.interpolation, step_start) :
                         ~get_keyframe_in_range(target_count, c.keyframes, i)
                  THEN Panicked(st)
                  ELSE [st EXCEPT !.ctx.morph_weights = lerp_morph_weights(@, sampled, weight)]
    ELSE IF ~st.ctx.has_transform THEN st
         ELSE LET entry == [i \in PositionsRead(c.interpolation, step_start)
                                |-> RInt(c.keyframes[i + 1])]
              IN  IF \E i \in PositionsRead(c.interpolation, step_start) : ~InRange(c.keyframes, i)
                  THEN Panicked(st)
                  ELSE BlendField(st, c.kind,
                                  Sample(c.interpolation, entry, step_start, u, duration), weight)

\* The body of the loop of apply for curves[k]: [st |-> the state after it,
\* continue |-> whether the loop goes on to curves[k + 1]].
apply_one_curve(c, k, seek_time, weight, st0, checks) ==
    LET st == [st0 EXCEPT !.evaluated = Append(@, k)]
        found == find_current_keyframe(c, seek_time, checks)
        step_start == found.idx
        ts == c.keyframe_timestamps
    IN  IF Len(ts) = 1
        THEN [st |-> apply_single_keyframe(c, weight, st), continue |-> FALSE]
        ELSE IF found = Panic THEN [st |-> Panicked(st), continue |-> FALSE]
        ELSE IF found = None THEN [st |-> st, continue |-> FALSE]
        ELSE IF ~InRange(ts, step_start + 1) THEN [st |-> Panicked(st), continue |-> FALSE]
        ELSE LET timestamp_start == RInt(ts[step_start + 1])
                 timestamp_end == RInt(ts[step_start + 2])
                 u == inverse_lerp(timestamp_start, timestamp_end, RInt(seek_time))
                 after == apply_tweened_keyframe(c, step_start, weight, u,
                                                 RSub(timestamp_end, timestamp_start), st)
             IN  [st |-> after, continue |-> after.status = "ok"]

RECURSIVE apply_from(_, _, _, _, _, _)
apply_from(curves, k, seek_time, weight, st, checks) ==
    IF k > Len(curves) THEN st
    ELSE LET r == apply_one_curve(curves[k], k, seek_time, weight, st, checks)
         IN  IF r.continue THEN apply_from(curves, k + 1, seek_time, weight, r.st, checks)
             ELSE r.st

\* PlayingAnimation::apply, from the loop over the target's curves on.
apply(curves, seek_time, weight, ctx, checks) ==
    apply_from(curves, 1, seek_time, weight, ApplyState(ctx), checks)

----------------------------------------------------------------------------
(* PlayingAnimation *)

\* Handle::default(): a handle no clip of the asset store has.
DefaultHandle == 0

Handles == 0..MaxClips

\* animation_clips.get(handle) is Some.
IsLoaded(handle) == handle \in 1..MaxClips

\* AnimationClip::duration of a loaded clip, in time units.
clip_duration_of(handle) == handle + 1

RepeatNever == [kind |-> "Never", n |-> 0]
RepeatForever == [kind |-> "Forever", n |-> 0]
RepeatCount(n) == [kind |-> "Count", n |-> n]

\* PlayingAnimation::default
DefaultPlayingAnimation ==
    [repeat |-> RepeatNever,
     speed |-> 1,
     elapsed |-> 0,
     seek_time |-> 0,
     animation_clip |-> DefaultHandle,
     completions |-> 0]

\* Faulty variant for C12: Count(n) asks for one more pass than n.
is_finished_after_extra_pass(a) ==
    CASE a.repeat.kind = "Forever" -> FALSE
      [] a.repeat.kind = "Never" -> a.completions >= 1
      [] a.repeat.kind = "Count" -> a.completions > a.repeat.n

\* PlayingAnimation::is_finished
is_finished(a) ==
    CASE a.repeat.kind = "Forever" -> FALSE
      [] a.repeat.kind = "Never" -> a.completions >= 1
      [] a.repeat.kind = "Count" -> a.completions >= a.repeat.n

\* Faulty variant for C11: a finished animation keeps its clock running.
update_keeps_clock_running(a, delta, clip_duration) ==
    IF is_finished(a) THEN [a EXCEPT !.elapsed = @ + delta]
    ELSE LET seek_time == a.seek_time + delta * a.speed
             over_time == a.speed > 0 /\ seek_time >= clip_duration
             under_time == a.speed < 0 /\ seek_time < 0
             counted == [a EXCEPT !.elapsed = @ + delta,
                                  !.seek_time = seek_time,
                                  !.completions = IF over_time \/ under_time THEN @ + 1 ELSE @]
             wrapped == IF seek_time >= clip_duration THEN seek_time % clip_duration
                        ELSE seek_time
         IN  IF (over_time \/ under_time) /\ is_finished(counted) THEN counted
             ELSE [counted EXCEPT !.seek_time =
                        IF wrapped < 0 THEN wrapped + clip_duration ELSE wrapped]

\* Faulty variant for C14: a pass through the start is counted but the
\* negative seek_time is left as it is.
update_without_wrap_around(a, delta, clip_duration) ==
    IF is_finished(a) THEN a
    ELSE LET seek_time == a.seek_time + delta * a.speed
             over_time == a.speed > 0 /\ seek_time >= clip_duration
             under_time == a.speed < 0 /\ seek_time < 0
             counted == [a EXCEPT !.elapsed = @ + delta,
                                  !.seek_time = seek_time,
                                  !.completions = IF over_time \/ under_time THEN @ + 1 ELSE @]
             wrapped == IF seek_time >= clip_duration THEN seek_time % clip_duration
                        ELSE seek_time
         IN  IF (over_time \/ under_time) /\ is_finished(counted) THEN counted
             ELSE [counted EXCEPT !.seek_time = wrapped]

\* Faulty variant for C27: seek_time is wrapped in the finishing tick too.
update_wraps_on_finish(a, delta, clip_duration) ==
    IF is_finished(a) THEN a
    ELSE LET seek_time == a.seek_time + delta * a.speed
             over_time == a.speed > 0 /\ seek_time >= clip_duration
             under_time == a.speed < 0 /\ seek_time < 0
             counted == [a EXCEPT !.elapsed = @ + delta,
                                  !.seek_time = seek_time,
                                  !.completions = IF over_time \/ under_time THEN @ + 1 ELSE @]
             wrapped == IF seek_time >= clip_duration THEN seek_time % clip_duration
                        ELSE seek_time
         IN  [counted EXCEPT !.seek_time =
                    IF wrapped < 0 THEN wrapped + clip_duration ELSE wrapped]

\* Faulty variant for C29: a finished animation is updated like any other.
update_without_finished_check(a, delta, clip_duration) ==
    LET seek_time == a.seek_time + delta * a.speed
        over_time == a.speed > 0 /\ seek_time >= clip_duration
        under_time == a.speed < 0 /\ seek_time < 0
        counted == [a EXCEPT !.elapsed = @ + delta,
                             !.seek_time = seek_time,
                             !.completions = IF over_time \/ under_time THEN @ + 1 ELSE @]
        wrapped == IF seek_time >= clip_duration THEN seek_time % clip_duration
                   ELSE seek_time
    IN  IF (over_time \/ under_time) /\ is_finished(counted) THEN counted
        ELSE [counted EXCEPT !.seek_time =
                   IF wrapped < 0 THEN wrapped + clip_duration ELSE wrapped]

\* Faulty variant for C32: a pass through the start in reverse is not counted.
update_ignores_reverse_pass(a, delta, clip_duration) ==
    IF is_finished(a) THEN a
    ELSE LET seek_time == a.seek_time + delta * a.speed
             over_time == a.speed > 0 /\ seek_time >= clip_duration
             under_time == FALSE
             counted == [a EXCEPT !.elapsed = @ + delta,
                                  !.seek_time = seek_time,
                                  !.completions = IF over_time \/ under_time THEN @ + 1 ELSE @]
             wrapped == IF seek_time >= clip_duration THEN seek_time % clip_duration
                        ELSE seek_time
         IN  IF (over_time \/ under_time) /\ is_finished(counted) THEN counted
             ELSE [counted EXCEPT !.seek_time =
                        IF wrapped < 0 THEN wrapped + clip_duration ELSE wrapped]

\* PlayingAnimation::update
update(a, delta, clip_duration) ==
    IF is_finished(a) THEN a
    ELSE LET seek_time == a.seek_time + delta * a.speed
             over_time == a.speed > 0 /\ seek_time >= clip_duration
             under_time == a.speed < 0 /\ seek_time < 0
             counted == [a EXCEPT !.elapsed = @ + delta,
                                  !.seek_time = seek_time,
                                  !.completions = IF over_time \/ under_time THEN @ + 1 ELSE @]
             wrapped == IF seek_time >= clip_duration THEN seek_time % clip_duration
                        ELSE seek_time
         IN  IF (over_time \/ under_time) /\ is_finished(counted) THEN counted
             ELSE [counted EXCEPT !.seek_time =
                        IF wrapped < 0 THEN wrapped + clip_duration ELSE wrapped]

\* if let Some(animation_clip) = animation_clips.get(..) { animation.update(..) }
update_if_loaded(a, delta) ==
    IF IsLoaded(a.animation_clip) THEN update(a, delta, clip_duration_of(a.animation_clip))
    ELSE a

\* Faulty variant for C24: the passes counted so far are kept.
replay_keeps_completions(a) == [a EXCEPT !.elapsed = 0, !.seek_time = 0]

\* PlayingAnimation::replay
replay(a) == [a EXCEPT !.completions = 0, !.elapsed = 0, !.seek_time = 0]

----------------------------------------------------------------------------
(* AnimationPlayer *)

RECURSIVE LCMUpTo(_)
LCMUpTo(n) == IF n <= 1 THEN 1 ELSE (LCMUpTo(n - 1) * n) \div GCD(LCMUpTo(n - 1), n)

\* The weight 1.0, in parts small enough that 1.0 / duration is a whole
\* number of them for every transition duration of the bounds.
WeightOne == LCMUpTo(MaxTransitionDuration)

\* Faulty variant for C6: the new state takes over the speed of the state it replaces.
fresh_animation_keeps_speed(handle) ==
    [DefaultPlayingAnimation EXCEPT !.animation_clip = handle, !.speed = animation.speed]

\* PlayingAnimation { animation_clip: handle, ..Default::default() }
fresh_animation(handle) == [DefaultPlayingAnimation EXCEPT !.animation_clip = handle]

\* AnimationTransition { current_weight: 1.0, weight_decline_per_sec: 1.0 / duration, animation }
\* The last three fields are history, not fields of the code: the serial
\* number of the transition, the duration it was asked for, and the time
\* the ticks have taken away from its weight.
new_transition(old_animation, transition_duration) ==
    [current_weight |-> WeightOne,
     weight_decline_per_sec |-> WeightOne \div transition_duration,
     animation |-> old_animation,
     id |-> born + 1,
     duration |-> transition_duration,
     age |-> 0]

\* Faulty variant for C7: the new transition is put in front of the list.
push_transition_front(list, t) == <<t>> \o list

\* self.transitions.push(..)
push_transition(list, t) == Append(list, t)

\* AnimationPlayer::is_playing_clip
is_playing_clip(handle) == animation.animation_clip = handle

\* Faulty variant for C9: a paused player does not restart the clip it holds.
should_start_ignores_pause(handle) == ~is_playing_clip(handle)

\* The condition of play and play_with_transition to (re)start the clip.
should_start(handle) == ~is_playing_clip(handle) \/ paused

\* Faulty variant for C8: a transition whose weight is exactly 0 stays in the list.
is_expired_below_zero(current_weight) == current_weight < 0

\* transition.current_weight <= 0.0: the transition is expired.
is_expired(current_weight) == current_weight <= 0

\* The body of the retain_mut closure: the weight declines, and the
\* animation of a transition that stays is updated.
advance_transition(t, delta) ==
    LET current_weight == t.current_weight - t.weight_decline_per_sec * delta
    IN  [t EXCEPT !.current_weight = current_weight,
                  !.animation = IF is_expired(current_weight) THEN @
                                ELSE update_if_loaded(@, delta),
                  !.age = @ + delta]

\* Vec::retain_mut: the elements with keep[i], in their order.
RECURSIVE retain_from(_, _, _)
retain_from(list, keep, i) ==
    IF i > Len(list) THEN <<>>
    ELSE IF keep[i] THEN <<list[i]>> \o retain_from(list, keep, i + 1)
    ELSE retain_from(list, keep, i + 1)

retain(list, keep) == retain_from(list, keep, 1)

\* Faulty variant for C28: every transition is retained, expired or not.
advance_transitions_keeps_all(list, delta) ==
    [i \in 1..Len(list) |-> advance_transition(list[i], delta)]

\* The transitions after advance_animations on an unpaused player.
advance_transitions(list, delta) ==
    LET advanced == [i \in 1..Len(list) |-> advance_transition(list[i], delta)]
        keep == [i \in 1..Len(list) |-> ~is_expired(advanced[i].current_weight)]
    IN  retain(advanced, keep)

\* Faulty variant for C10: the paused flag is not looked at.
skips_tick_never == FALSE

\* The player skips the tick: let paused = player.paused; if paused { continue; }
skips_tick == paused

----------------------------------------------------------------------------
(* Values the variables of the other specifications hold while one runs *)

ApplyIdleOutcome == [status |-> "idle", evaluated |-> <<>>, diagnostics |-> 0]

\* What the last operation found: the length of the transition list and the
\* speed and repeat mode of the active animation (recorded for start, play
\* and replay), and its elapsed time and completions (recorded for replay).
NoSummary == [transitions |-> 0, speed |-> 1, repeat |-> "Never",
              elapsed |-> 0, completions |-> 0]

NoOp == [name |-> "none", clip |-> DefaultHandle, duration |-> 0, delta |-> 0,
         before |-> NoSummary]

CurveIdle ==
    /\ curve = VariableCurve(<<>>, "Linear", "Translation", 1)
    /\ seek = 0
    /\ result = Unset

ApplyIdle ==
    /\ apply_curves = <<>>
    /\ apply_seek = 0
    /\ apply_weight = 0
    /\ target_context = TargetContext(FALSE, FALSE, 0)
    /\ apply_outcome = ApplyIdleOutcome

PlayerIdle ==
    /\ paused = FALSE
    /\ animation = DefaultPlayingAnimation
    /\ transitions = <<>>
    /\ op = NoOp
    /\ born = 0
    /\ steps = 0

NoUpdateCall == [called |-> FALSE, delta |-> 0, clip_duration |-> 0,
                 before |-> DefaultPlayingAnimation]

PlaybackIdle ==
    /\ playing = DefaultPlayingAnimation
    /\ clip_len = 0
    /\ update_call = NoUpdateCall
    /\ steady = TRUE

FrameIdle ==
    /\ players = <<>>
    /\ targets = <<>>
    /\ frame = [phase |-> "idle"]

\* The AnimationTargetIds the clip is given curves for.
ClipTargetIds == {"bone", "stray"}

\* AnimationClip::default: no curves for any target, duration 0.0.
DefaultAnimationClip == [curves |-> [id \in ClipTargetIds |-> <<>>], duration |-> 0]

NoTargetIds == [computed |-> FALSE, names_a |-> <<>>, names_b |-> <<>>,
                id_a |-> <<>>, id_b |-> <<>>]

AssetIdle ==
    /\ clip_asset = DefaultAnimationClip
    /\ target_ids = NoTargetIds

----------------------------------------------------------------------------
(* SpecCurve: find_current_keyframe on every curve and seek_time of the bounds *)

SeekTimes == (-1)..(MaxTime + 1)

InitCurve ==
    /\ curve \in Curves
    /\ seek \in SeekTimes
    /\ result = Unset
    /\ overflow_checks \in BOOLEAN
    /\ ApplyIdle
    /\ PlayerIdle
    /\ PlaybackIdle
    /\ FrameIdle
    /\ AssetIdle

FindCurrentKeyframe ==
    /\ result = Unset
    /\ result' = find_current_keyframe(curve, seek, overflow_checks)
    /\ UNCHANGED <<curve, seek, overflow_checks, applyVars, playerVars,
                   playbackVars, frameVars, assetVars>>

NextCurve == FindCurrentKeyframe

SpecCurve == InitCurve /\ [][NextCurve]_vars

\* The timestamps of the searched curve, and their number.
Timestamps == curve.keyframe_timestamps
NumTimestamps == Len(curve.keyframe_timestamps)

\* C1: whenever find_current_keyframe returns an index i for a curve with as
\* many timestamps as logical keyframes, i < keyframe_count - 1, so that
\* keyframe_timestamps[i + 1] exists, in every interpolation mode and for
\* every payload kind.
C1_IndexHasNextKeyframe ==
    (result.tag = "Some" /\ NumTimestamps = KeyframeCount(curve))
        => result.idx < KeyframeCount(curve) - 1

\* C2: for a curve with at least 2 keyframes and a seek_time equal to or
\* greater than the last timestamp, find_current_keyframe returns None.
C2_NoneAtOrPastLastTimestamp ==
    (/\ result /= Unset
     /\ NumTimestamps >= 2
     /\ seek >= Timestamps[NumTimestamps])
        => result = None

C4_NoneBeforeFirstTimestamp ==
    (/\ result /= Unset
     /\ NumTimestamps >= 2
     /\ seek < Timestamps[1])
        => result = None

\* C4 witness: a lookup before the first timestamp of a curve that starts
\* after time 0 returned None.
C4_Witness ==
    /\ NumTimestamps >= 2
    /\ Timestamps[1] > 0
    /\ seek < Timestamps[1]
    /\ result = None

----------------------------------------------------------------------------
(* SpecApply: one apply call on one target, for every list of curves, *)
(* seek_time, weight and target of the bounds                          *)

\* Timestamps 1, 3, 5, ...: every step has an interior time, and time 0 is
\* before the start of the curve.
ApplyTimestamps(n) == [i \in 1..n |-> 2 * i - 1]

ApplyCurveSet ==
    {VariableCurve(ApplyTimestamps(n), i, k, tc) :
        n \in 1..MaxApplyKeyframes, i \in Interpolations, k \in KeyframeKinds,
        tc \in 1..MaxTargetCount}

KindRank(kind) ==
    CASE kind = "Rotation" -> 1
      [] kind = "Translation" -> 2
      [] kind = "Scale" -> 3
      [] kind = "Weights" -> 4

\* The curves of one target: at most one curve per animated property.
ApplyCurveLists ==
    {l \in UNION {[1..n -> ApplyCurveSet] : n \in 1..MaxCurves} :
        \A a \in 1..(Len(l) - 1) : KindRank(l[a].kind) < KindRank(l[a + 1].kind)}

ApplySeekTimes == 0..(2 * MaxApplyKeyframes)

\* Full weight (the primary animation) and half weight (a transition).
ApplyWeights == {<<1, 1>>, <<1, 2>>}

\* The targets animate_targets visits have a Transform, MorphWeights or both.
ApplyTargets ==
    {TargetContext(has[1], has[2], MaxTargetCount) :
        has \in {h \in BOOLEAN \X BOOLEAN : h[1] \/ h[2]}}

InitApply ==
    /\ apply_curves \in ApplyCurveLists
    /\ apply_seek \in ApplySeekTimes
    /\ apply_weight \in ApplyWeights
    /\ target_context \in ApplyTargets
    /\ apply_outcome = ApplyIdleOutcome
    /\ overflow_checks = TRUE
    /\ CurveIdle
    /\ PlayerIdle
    /\ PlaybackIdle
    /\ FrameIdle
    /\ AssetIdle

ApplyAnimation ==
    /\ apply_outcome.status = "idle"
    /\ LET r == apply(apply_curves, apply_seek, apply_weight, target_context, overflow_checks)
       IN  /\ target_context' = r.ctx
           /\ apply_outcome' = [status |-> r.status, evaluated |-> r.evaluated,
                                diagnostics |-> r.diagnostics]
    /\ UNCHANGED <<apply_curves, apply_seek, apply_weight, overflow_checks,
                   curveVars, playerVars, playbackVars, frameVars, assetVars>>

NextApply == ApplyAnimation

SpecApply == InitApply /\ [][NextApply]_vars

\* C5: when a clip holds several curves for one target, apply evaluates
\* every curve of the list: a curve with exactly one keyframe is applied and
\* a curve whose lookup returns None is skipped on its own, and in both
\* cases the curves after it are still evaluated.
C5_EveryCurveEvaluated ==
    apply_outcome.status = "ok"
        => apply_outcome.evaluated = [k \in 1..Len(apply_curves) |-> k]

----------------------------------------------------------------------------
(* SpecPlayer: one AnimationPlayer under its public operations and ticks *)

Op(name, clip, duration, delta) ==
    [name |-> name, clip |-> clip, duration |-> duration, delta |-> delta,
     before |-> IF name \in {"start", "play"}
                THEN [transitions |-> Len(transitions), speed |-> animation.speed,
                      repeat |-> animation.repeat.kind,
                      elapsed |-> 0, completions |-> 0]
                ELSE IF name = "replay"
                THEN [transitions |-> Len(transitions), speed |-> animation.speed,
                      repeat |-> animation.repeat.kind,
                      elapsed |-> animation.elapsed,
                      completions |-> animation.completions]
                ELSE NoSummary]

Speeds == {-1, 1, MaxSpeed}
RepeatModes == {RepeatNever, RepeatForever, RepeatCount(MaxCount)}
TransitionDurations == 1..MaxTransitionDuration
Deltas == 0..MaxDelta
SeekToTimes == 0..(MaxClips + 1)

\* AnimationPlayer::default
InitPlayer ==
    /\ paused = FALSE
    /\ animation = DefaultPlayingAnimation
    /\ transitions = <<>>
    /\ op = NoOp
    /\ born = 0
    /\ steps = 0
    /\ overflow_checks = TRUE
    /\ CurveIdle
    /\ ApplyIdle
    /\ PlaybackIdle
    /\ FrameIdle
    /\ AssetIdle

\* The assignments of start(handle).
StartEffect(handle) ==
    /\ animation' = fresh_animation(handle)
    /\ transitions' = <<>>
    /\ UNCHANGED <<paused, born>>

\* The assignments of start_with_transition(handle, transition_duration).
StartWithTransitionEffect(handle, transition_duration) ==
    /\ animation' = fresh_animation(handle)
    /\ transitions' = push_transition(transitions, new_transition(animation, transition_duration))
    /\ born' = born + 1
    /\ UNCHANGED paused

Start(handle) ==
    /\ StartEffect(handle)
    /\ op' = Op("start", handle, 0, 0)

StartWithTransition(handle, transition_duration) ==
    /\ born < MaxBorn
    /\ StartWithTransitionEffect(handle, transition_duration)
    /\ op' = Op("start_with_transition", handle, transition_duration, 0)

Play(handle) ==
    /\ IF should_start(handle) THEN StartEffect(handle)
       ELSE UNCHANGED <<paused, animation, transitions, born>>
    /\ op' = Op("play", handle, 0, 0)

PlayWithTransition(handle, transition_duration) ==
    /\ born < MaxBorn
    /\ IF should_start(handle) THEN StartWithTransitionEffect(handle, transition_duration)
       ELSE UNCHANGED <<paused, animation, transitions, born>>
    /\ op' = Op("play_with_transition", handle, transition_duration, 0)

Pause ==
    /\ paused' = TRUE
    /\ op' = Op("pause", DefaultHandle, 0, 0)
    /\ UNCHANGED <<animation, transitions, born>>

Resume ==
    /\ paused' = FALSE
    /\ op' = Op("resume", DefaultHandle, 0, 0)
    /\ UNCHANGED <<animation, transitions, born>>

SetSpeed(speed) ==
    /\ animation' = [animation EXCEPT !.speed = speed]
    /\ op' = Op("set_speed", DefaultHandle, 0, 0)
    /\ UNCHANGED <<paused, transitions, born>>

SetRepeat(repeat) ==
    /\ animation' = [animation EXCEPT !.repeat = repeat]
    /\ op' = Op("set_repeat", DefaultHandle, 0, 0)
    /\ UNCHANGED <<paused, transitions, born>>

Repeat ==
    /\ animation' = [animation EXCEPT !.repeat = RepeatForever]
    /\ op' = Op("repeat", DefaultHandle, 0, 0)
    /\ UNCHANGED <<paused, transitions, born>>

SeekTo(seek_time) ==
    /\ animation' = [animation EXCEPT !.seek_time = seek_time]
    /\ op' = Op("seek_to", DefaultHandle, 0, 0)
    /\ UNCHANGED <<paused, transitions, born>>

Replay ==
    /\ animation' = replay(animation)
    /\ op' = Op("replay", DefaultHandle, 0, 0)
    /\ UNCHANGED <<paused, transitions, born>>

\* advance_animations for the player, in a tick of delta time units.
Advance(delta) ==
    /\ IF skips_tick THEN UNCHANGED <<animation, transitions>>
       ELSE /\ animation' = update_if_loaded(animation, delta)
            /\ transitions' = advance_transitions(transitions, delta)
    /\ op' = Op("advance", DefaultHandle, 0, delta)
    /\ UNCHANGED <<paused, born>>

NextPlayer ==
    /\ steps < MaxSteps
    /\ steps' = steps + 1
    /\ \/ \E h \in Handles : Start(h)
       \/ \E h \in Handles, d \in TransitionDurations : StartWithTransition(h, d)
       \/ \E h \in Handles : Play(h)
       \/ \E h \in Handles, d \in TransitionDurations : PlayWithTransition(h, d)
       \/ Pause
       \/ Resume
       \/ \E v \in Speeds : SetSpeed(v)
       \/ \E r \in RepeatModes : SetRepeat(r)
       \/ Repeat
       \/ \E t \in SeekToTimes : SeekTo(t)
       \/ Replay
       \/ \E d \in Deltas : Advance(d)
    /\ UNCHANGED <<overflow_checks, curveVars, applyVars, playbackVars, frameVars, assetVars>>

SpecPlayer == InitPlayer /\ [][NextPlayer]_vars

\* The state start(clip) and start_with_transition(clip, _) make active.
ExpectedFresh(clip) ==
    [repeat |-> [kind |-> "Never", n |-> 0],
     speed |-> 1,
     elapsed |-> 0,
     seek_time |-> 0,
     animation_clip |-> clip,
     completions |-> 0]

\* The list start_with_transition(_, duration) leaves: the list as it was,
\* followed by one transition of weight 1.0 that holds the active state as it was.
ExpectedPushed(duration) ==
    transitions \o
        <<[current_weight |-> WeightOne,
           weight_decline_per_sec |-> WeightOne \div duration,
           animation |-> animation,
           id |-> born + 1,
           duration |-> duration,
           age |-> 0]>>

C7_TransitionsOldestToNewest ==
    [][/\ op'.name = "start_with_transition" => transitions' = ExpectedPushed(op'.duration)
       /\ op'.name = "advance" =>
            /\ Len(transitions') <= Len(transitions)
            /\ \A k \in 1..Len(transitions') :
                 \E i \in k..Len(transitions) : transitions'[k].id = transitions[i].id
       /\ \A k \in 1..(Len(transitions') - 1) : transitions'[k].id < transitions'[k + 1].id
      ]_vars

\* C7 witness: a second transition was appended behind an older one.
C7_Witness ==
    /\ op.name = "start_with_transition"
    /\ Len(transitions) = 2
    /\ transitions[1].id = 1
    /\ transitions[2].id = 2
    /\ transitions[2].current_weight = WeightOne

\* C8: a transition created by start_with_transition(clip, D), D > 0, has
\* weight 1.0; after unpaused ticks totalling t < D its weight is 1 - t/D;
\* the first tick in which the total reaches D or more removes it.
C8_WeightDeclinesLinearly ==
    [][/\ \A k \in 1..Len(transitions') :
            /\ transitions'[k].age < transitions'[k].duration
            /\ transitions'[k].current_weight * transitions'[k].duration
                  = WeightOne * (transitions'[k].duration - transitions'[k].age)
       /\ (op'.name = "advance" /\ ~paused) =>
            {transitions'[k].id : k \in 1..Len(transitions')}
                = {transitions[i].id : i \in
                      {j \in 1..Len(transitions) :
                          transitions[j].age + op'.delta < transitions[j].duration}}
      ]_vars

\* C8 witness: half of the duration of a transition has passed and its
\* weight is 0.5.
C8_Witness ==
    /\ op.name = "advance"
    /\ Len(transitions) = 1
    /\ transitions[1].duration = 2
    /\ transitions[1].age = 1
    /\ 2 * transitions[1].current_weight = WeightOne

\* C9: play(clip) and play_with_transition(clip, d) change nothing in the
\* player when clip is already the active clip and the player is not
\* paused; in every other case the player ends in the state start(clip),
\* respectively start_with_transition(clip, d), produces.
C9_PlayStartsUnlessPlaying ==
    [][/\ op'.name = "play" =>
            IF animation.animation_clip = op'.clip /\ ~paused
            THEN UNCHANGED <<paused, animation, transitions>>
            ELSE /\ animation' = ExpectedFresh(op'.clip)
                 /\ transitions' = <<>>
                 /\ paused' = paused
       /\ op'.name = "play_with_transition" =>
            IF animation.animation_clip = op'.clip /\ ~paused
            THEN UNCHANGED <<paused, animation, transitions>>
            ELSE /\ animation' = ExpectedFresh(op'.clip)
                 /\ transitions' = ExpectedPushed(op'.duration)
                 /\ paused' = paused
      ]_vars

\* C9 witness: play of the clip a paused player holds restarted it.
C9_Witness ==
    /\ op.name = "play"
    /\ paused
    /\ op.clip /= DefaultHandle
    /\ op.before.speed /= 1
    /\ animation = ExpectedFresh(op.clip)

\* C10: while a player is paused, advance changes nothing in it for any
\* delta: the active state, every transition with its weight, and the
\* membership of the list stay the same; resume changes the flag alone, so
\* that the next advance continues from exactly those values.
C10_PausedPlayerIsFrozen ==
    [][/\ (op'.name = "advance" /\ paused) => UNCHANGED <<paused, animation, transitions>>
       /\ op'.name = "resume" => (~paused' /\ UNCHANGED <<animation, transitions>>)
      ]_vars

\* C10 witness: a tick of positive length passed over a paused player whose
\* list holds a transition that has not aged.
C10_Witness ==
    /\ op.name = "advance"
    /\ op.delta > 0
    /\ paused
    /\ Len(transitions) = 1
    /\ transitions[1].age = 0
    /\ animation.animation_clip /= DefaultHandle
    /\ animation.elapsed = 0

----------------------------------------------------------------------------
(* SpecPlayback: PlayingAnimation::update called again and again on one *)
(* animation that was started fresh *)

PlaybackSpeeds == {-MaxSpeed, -1, 1, MaxSpeed}
RepeatPolicies == {RepeatNever, RepeatForever} \cup {RepeatCount(n) : n \in 0..MaxCount}
Durations == 1..MaxDuration

\* A fresh PlayingAnimation after set_speed and set_repeat.
InitPlayback ==
    /\ \E speed \in PlaybackSpeeds, repeat \in RepeatPolicies :
          playing = [DefaultPlayingAnimation EXCEPT !.speed = speed, !.repeat = repeat]
    /\ clip_len \in Durations
    /\ update_call = NoUpdateCall
    /\ steady = TRUE
    /\ overflow_checks = TRUE
    /\ CurveIdle
    /\ ApplyIdle
    /\ PlayerIdle
    /\ FrameIdle
    /\ AssetIdle

\* The tick stays within the documented assumption of update:
\* |delta * speed| does not exceed clip_duration.
InContract(a, delta, clip_duration) == delta * Abs(a.speed) <= clip_duration

\* One call of update(delta, clip_duration).
Update(delta, clip_duration) ==
    /\ playing.elapsed + delta <= MaxElapsed
    /\ playing' = update(playing, delta, clip_duration)
    /\ update_call' = [called |-> TRUE, delta |-> delta, clip_duration |-> clip_duration,
                       before |-> playing]
    /\ steady' = (steady /\ clip_duration = clip_len /\ InContract(playing, delta, clip_duration))
    /\ UNCHANGED <<clip_len, overflow_checks, curveVars, applyVars, playerVars, frameVars, assetVars>>

NextPlayback == \E delta \in Deltas, clip_duration \in Durations : Update(delta, clip_duration)

SpecPlayback == InitPlayback /\ [][NextPlayback]_vars

\* The passes a repeat policy asks for before the animation stops.
PassesAsked(repeat) == IF repeat.kind = "Never" THEN 1 ELSE repeat.n

Min(a, b) == IF a <= b THEN a ELSE b

\* C11: with repeat Never and positive speed, the update in which seek_time
\* reaches or passes clip_duration makes is_finished() true, and every update
\* call on the finished animation, whatever its delta and clip_duration,
\* leaves elapsed, seek_time and completions as they were.
C11_NeverFreezesAfterFirstPass ==
    [][(playing.repeat.kind = "Never" /\ playing.speed > 0) =>
          /\ (/\ playing.completions = 0
              /\ playing.seek_time + update_call'.delta * playing.speed
                     >= update_call'.clip_duration)
                => (is_finished(playing') /\ playing'.completions = 1)
          /\ playing.completions >= 1
                => /\ playing'.elapsed = playing.elapsed
                   /\ playing'.seek_time = playing.seek_time
                   /\ playing'.completions = playing.completions]_vars

\* C11 case: update was called with a positive delta and another clip
\* duration on an animation that had finished, and changed nothing.
C11_Witness ==
    /\ update_call.called
    /\ update_call.before.repeat.kind = "Never"
    /\ update_call.before.speed > 0
    /\ update_call.before.completions = 1
    /\ update_call.delta > 0
    /\ update_call.clip_duration # clip_len
    /\ playing = update_call.before

\* C12: with repeat Count(n) and a tick with |delta * speed| <= clip_duration,
\* update raises completions by 1 when the pass completes in the tick and by
\* 0 otherwise, is_finished() is true exactly when completions >= n, and with
\* positive speed completions is the number of whole clip durations played,
\* up to n.
C12_CountStopsAtNthPass ==
    [][(playing.repeat.kind = "Count"
            /\ InContract(playing, update_call'.delta, update_call'.clip_duration)) =>
          LET n == playing.repeat.n
              raw == playing.seek_time + update_call'.delta * playing.speed
              pass == /\ playing.completions < n
                      /\ \/ playing.speed > 0 /\ raw >= update_call'.clip_duration
                         \/ playing.speed < 0 /\ raw < 0
          IN  /\ playing'.completions = playing.completions + (IF pass THEN 1 ELSE 0)
              /\ is_finished(playing) <=> playing.completions >= n
              /\ is_finished(playing') <=> playing'.completions >= n
              /\ (steady' /\ playing.speed > 0)
                    => playing'.completions
                          = Min(n, (playing'.elapsed * playing.speed) \div clip_len)]_vars

\* C12 case: the tick in which the second of two passes asked for completed.
C12_Witness ==
    /\ update_call.called
    /\ steady
    /\ update_call.before.repeat = RepeatCount(2)
    /\ update_call.before.completions = 1
    /\ ~is_finished(update_call.before)
    /\ playing.completions = 2
    /\ is_finished(playing)

\* C13: an animation started fresh and ticked with one clip_duration is not
\* finished before the played distance (elapsed * |speed|) has reached one
\* clip_duration with repeat Never, and n clip_durations with Count(n),
\* whether the speed is positive or negative.
C13_StopsOnlyAfterFullPasses ==
    (steady /\ playing.repeat.kind \in {"Never", "Count"} /\ is_finished(playing))
        => playing.elapsed * Abs(playing.speed) >= PassesAsked(playing.repeat) * clip_len

----------------------------------------------------------------------------
(* SpecPlayerInContract: the player of SpecPlayer, with ticks that stay *)
(* within |delta * speed| <= clip_duration and seek_to called with a time *)
(* inside the clip *)

\* The duration of the clip of the active animation.
ActiveClipDuration == clip_duration_of(animation.animation_clip)

AdvanceInContract(delta) ==
    /\ IsLoaded(animation.animation_clip)
          => InContract(animation, delta, ActiveClipDuration)
    /\ Advance(delta)

SeekToInRange(seek_time) ==
    /\ IsLoaded(animation.animation_clip)
    /\ seek_time >= 0
    /\ seek_time < ActiveClipDuration
    /\ SeekTo(seek_time)

NextPlayerInContract ==
    /\ steps < MaxSteps
    /\ steps' = steps + 1
    /\ \/ \E h \in Handles : Start(h)
       \/ \E h \in Handles, d \in TransitionDurations : StartWithTransition(h, d)
       \/ \E h \in Handles : Play(h)
       \/ \E h \in Handles, d \in TransitionDurations : PlayWithTransition(h, d)
       \/ Pause
       \/ Resume
       \/ \E v \in Speeds : SetSpeed(v)
       \/ \E r \in RepeatModes : SetRepeat(r)
       \/ Repeat
       \/ \E t \in SeekToTimes : SeekToInRange(t)
       \/ Replay
       \/ \E d \in Deltas : AdvanceInContract(d)
    /\ UNCHANGED <<overflow_checks, curveVars, applyVars, playbackVars, frameVars, assetVars>>

SpecPlayerInContract == InitPlayer /\ [][NextPlayerInContract]_vars

\* C15: in every state reached by player operations (seek_to with a time
\* inside the clip) and ticks with |delta * speed| <= clip_duration, an active
\* animation of a loaded clip that is not finished has
\* 0 <= seek_time < clip_duration.
C15_UnfinishedSeekTimeInsideClip ==
    (IsLoaded(animation.animation_clip) /\ ~is_finished(animation))
        => (animation.seek_time >= 0 /\ animation.seek_time < ActiveClipDuration)

\* C16: the value AnimationPlayer::seek_time() returns is within
\* [0, clip duration] in every state, finished or not.
C16_SeekTimeWithinClip ==
    IsLoaded(animation.animation_clip)
        => (animation.seek_time >= 0 /\ animation.seek_time <= ActiveClipDuration)

----------------------------------------------------------------------------
(* SpecFrame: the PostUpdate schedule of AnimationPlugin on a scene with two *)
(* players and four targets: advance_animations, then animate_targets *)

PlayerEntities == {"p1", "p2"}
TargetEntities == {"t1", "t2", "t3", "t4"}

\* The scene: t1 and t4 belong to p1, t2 to p2, and the player of t3 is not
\* in the world any more; the clips animate the target id "bone" only.
TargetPlayer(t) ==
    CASE t = "t1" -> "p1" [] t = "t2" -> "p2" [] t = "t3" -> "despawned" [] t = "t4" -> "p1"

TargetId(t) == IF t = "t4" THEN "stray" ELSE "bone"

\* players.get(target.player) is Ok.
HasPlayer(t) == TargetPlayer(t) \in PlayerEntities

\* AnimationPlayer::default and the player operations, on a player value.
player_default ==
    [paused |-> FALSE, animation |-> DefaultPlayingAnimation, transitions |-> <<>>]

player_start(p, handle) ==
    [p EXCEPT !.animation = fresh_animation(handle), !.transitions = <<>>]

player_start_with_transition(p, handle, transition_duration) ==
    [p EXCEPT !.animation = fresh_animation(handle),
              !.transitions = push_transition(@,
                  [new_transition(p.animation, transition_duration)
                      EXCEPT !.id = Len(p.transitions) + 1])]

player_repeat(p) == [p EXCEPT !.animation.repeat = RepeatForever]

player_pause(p) == [p EXCEPT !.paused = TRUE]

\* The body of the loop of advance_animations for one player.
player_advance(p, delta) ==
    IF p.paused THEN p
    ELSE [p EXCEPT !.animation = update_if_loaded(@, delta),
                   !.transitions = advance_transitions(@, delta)]

\* The players a frame can find: untouched, playing a clip, fading from a
\* clip that played for one time unit, fading twice, fading from the default
\* animation (whose clip is not loaded), and paused while fading twice.
Started(handle) == player_start(player_default, handle)

Faded(handle) ==
    player_start_with_transition(player_advance(Started(1), 1), handle, MaxTransitionDuration)

TwiceFaded(transition_duration) ==
    player_start_with_transition(
        player_advance(
            player_start_with_transition(
                player_advance(player_repeat(Started(1)), 1), 1, MaxTransitionDuration),
            1),
        1, transition_duration)

FadedFromUnloaded ==
    player_start_with_transition(player_default, 1, MaxTransitionDuration)

FramePlayers ==
    {player_default}
        \cup {Started(h) : h \in 1..MaxClips}
        \cup {Faded(h) : h \in Handles}
        \cup {TwiceFaded(d) : d \in TransitionDurations}
        \cup {FadedFromUnloaded}
        \cup {player_pause(TwiceFaded(1))}

\* A target at the start of the run: a Transform, nothing evaluated.
\* ctx_before and applied are history: the fields at the start of the frame,
\* and the animations applied in the frame (0 is the main animation).
NewTarget(t) ==
    [player |-> TargetPlayer(t),
     id |-> TargetId(t),
     ctx |-> TargetContext(TRUE, FALSE, 0),
     ctx_before |-> TargetContext(TRUE, FALSE, 0),
     stage |-> 0,
     done |-> FALSE,
     errors |-> 0,
     applied |-> <<>>]

InitFrame ==
    /\ overflow_checks = TRUE
    /\ CurveIdle
    /\ ApplyIdle
    /\ PlayerIdle
    /\ PlaybackIdle
    /\ AssetIdle
    /\ players \in [PlayerEntities -> FramePlayers]
    /\ targets = [t \in TargetEntities |-> NewTarget(t)]
    /\ frame = [phase |-> "update", number |-> 0, delta |-> 0, advanced |-> {}, removed |-> {}]

\* The curves of a loaded clip: one Linear Translation curve over the clip.
clip_curves(handle) ==
    <<VariableCurve(<<0, clip_duration_of(handle)>>, "Linear", "Translation", 1)>>

\* clip.curves_for_target(target.id) is Some.
has_curves_for_target(handle, id) == id = "bone"

\* PlayingAnimation::apply from its first line: the clip may not be loaded
\* and may hold no curves for the target.
apply_animation(a, weight, tgt) ==
    IF ~IsLoaded(a.animation_clip) THEN [ctx |-> tgt.ctx, diagnostics |-> 0]
    ELSE IF ~has_curves_for_target(a.animation_clip, tgt.id)
    THEN [ctx |-> tgt.ctx, diagnostics |-> 0]
    ELSE LET r == apply(clip_curves(a.animation_clip), a.seek_time, weight, tgt.ctx, TRUE)
         IN  [ctx |-> r.ctx, diagnostics |-> r.diagnostics]

\* Faulty variant for C17: the transitions are taken newest first.
animation_at_newest_first(p, k) ==
    IF k = 0 THEN [id |-> 0, animation |-> p.animation, weight |-> RInt(1)]
    ELSE LET t == p.transitions[Len(p.transitions) - k + 1]
         IN  [id |-> t.id, animation |-> t.animation, weight |-> Rat(t.current_weight, WeightOne)]

\* The k-th apply call of the closure of animate_targets: the main animation
\* with weight 1.0, then the transitions in the order of the list.
animation_at(p, k) ==
    IF k = 0 THEN [id |-> 0, animation |-> p.animation, weight |-> RInt(1)]
    ELSE LET t == p.transitions[k]
         IN  [id |-> t.id, animation |-> t.animation, weight |-> Rat(t.current_weight, WeightOne)]

\* Faulty variant for C18: the fields are written to every target of the player.
store_context_for_player(ts, t, rec) ==
    [u \in DOMAIN ts |->
        IF u = t THEN rec
        ELSE IF ts[u].player = rec.player THEN [ts[u] EXCEPT !.ctx = rec.ctx]
        ELSE ts[u]]

\* The closure writes through the &mut Transform of its own target.
store_context(ts, t, rec) == [ts EXCEPT ![t] = rec]

\* Faulty variant for C20: the missing player ends the evaluation of all targets.
after_missing_player_stops_all(ts, t) ==
    [u \in DOMAIN ts |->
        IF u = t THEN [ts[u] EXCEPT !.done = TRUE, !.errors = @ + 1]
        ELSE [ts[u] EXCEPT !.done = TRUE]]

\* let Ok(player) = players.get(target.player) else { error!(..); return; }
after_missing_player(ts, t) == [ts EXCEPT ![t].done = TRUE, ![t].errors = @ + 1]

\* Faulty variant for C19: the two systems are not ordered.
unchained == TRUE

\* (advance_animations, animate_targets).chain(): animate_targets runs when
\* advance_animations has gone through all players.
chained_after_advance == frame.advanced = PlayerEntities

\* The schedule starts a frame with Time::delta_seconds = delta.
BeginFrame(delta) ==
    /\ frame.phase = "update"
    /\ frame.number < MaxFrames
    /\ frame' = [frame EXCEPT !.phase = "run", !.delta = delta,
                              !.advanced = {}, !.removed = {}]
    /\ targets' = [t \in TargetEntities |->
                      [targets[t] EXCEPT !.ctx_before = targets[t].ctx, !.stage = 0,
                                         !.done = FALSE, !.errors = 0, !.applied = <<>>]]
    /\ UNCHANGED players

TransitionIds(p) == {p.transitions[i].id : i \in 1..Len(p.transitions)}

\* One iteration of the loop of advance_animations.
AdvancePlayer(e) ==
    /\ frame.phase = "run"
    /\ e \notin frame.advanced
    /\ LET advanced == player_advance(players[e], frame.delta)
       IN  /\ players' = [players EXCEPT ![e] = advanced]
           /\ frame' = [frame EXCEPT
                  !.advanced = @ \cup {e},
                  !.removed = @ \cup {<<e, id>> :
                        id \in TransitionIds(players[e]) \ TransitionIds(advanced)}]
    /\ UNCHANGED targets

\* The next step of the closure of animate_targets for target t: the player
\* lookup and the main animation, then one transition per step.
EvaluateTarget(t) ==
    /\ frame.phase = "run"
    /\ chained_after_advance
    /\ ~targets[t].done
    /\ targets' =
          IF ~HasPlayer(t) THEN after_missing_player(targets, t)
          ELSE LET tgt == targets[t]
                   p == players[tgt.player]
                   k == tgt.stage
               IN  IF k > Len(p.transitions)
                   THEN store_context(targets, t, [tgt EXCEPT !.done = TRUE])
                   ELSE LET cur == animation_at(p, k)
                            r == apply_animation(cur.animation, cur.weight, tgt)
                        IN  store_context(targets, t,
                                [tgt EXCEPT !.ctx = r.ctx,
                                            !.errors = @ + r.diagnostics,
                                            !.stage = k + 1,
                                            !.done = (k >= Len(p.transitions)),
                                            !.applied = Append(@,
                                                [id |-> cur.id,
                                                 clip |-> cur.animation.animation_clip,
                                                 seek_time |-> cur.animation.seek_time,
                                                 weight |-> cur.weight])])
    /\ UNCHANGED <<players, frame>>

\* Both systems have run: the frame is over.
EndFrame ==
    /\ frame.phase = "run"
    /\ frame.advanced = PlayerEntities
    /\ \A t \in TargetEntities : targets[t].done
    /\ frame' = [frame EXCEPT !.phase = "update", !.number = @ + 1]
    /\ UNCHANGED <<players, targets>>

NextFrame ==
    /\ \/ \E delta \in Deltas : BeginFrame(delta)
       \/ \E e \in PlayerEntities : AdvancePlayer(e)
       \/ \E t \in TargetEntities : EvaluateTarget(t)
       \/ EndFrame
    /\ UNCHANGED <<overflow_checks, curveVars, applyVars, playerVars, playbackVars,
                   assetVars>>

SpecFrame == InitFrame /\ [][NextFrame]_vars

\* The value the clip of animation a holds for target id at a.seek_time:
\* none when the clip is not loaded, has no curve for the id, or the
\* seek_time is outside [0, duration).
ExpectedSample(a, id) ==
    LET duration == clip_duration_of(a.animation_clip)
    IN  IF IsLoaded(a.animation_clip) /\ id = "bone"
           /\ a.seek_time >= 0 /\ a.seek_time < duration
        THEN [some |-> TRUE,
              value |-> RAdd(RInt(KeyValue(1)),
                             Rat((KeyValue(2) - KeyValue(1)) * a.seek_time, duration))]
        ELSE [some |-> FALSE, value |-> RInt(0)]

\* The main animation with weight 1.0, then the transitions, oldest first.
ExpectedSequence(p) ==
    <<[animation |-> p.animation, weight |-> RInt(1)]>>
        \o [i \in 1..Len(p.transitions) |->
               [animation |-> p.transitions[i].animation,
                weight |-> Rat(p.transitions[i].current_weight, WeightOne)]]

\* The left fold of current + (sample - current) * weight over the first n
\* entries of the sequence.
RECURSIVE ExpectedFold(_, _, _, _)
ExpectedFold(value, sequence, id, n) ==
    IF n = 0 THEN value
    ELSE LET current == ExpectedFold(value, sequence, id, n - 1)
             sample == ExpectedSample(sequence[n].animation, id)
         IN  IF sample.some
             THEN RAdd(current, RMul(RSub(sample.value, current), sequence[n].weight))
             ELSE current

\* C17: for one target in one tick the main animation is applied first with
\* weight 1.0, then every transition in list order with its current_weight,
\* each blending against the value the previous one left: after n
\* applications the field is the left fold of lerp(current, sample_k,
\* weight_k) over the first n of them, and nothing else has changed.
C17_BlendsInListOrder ==
    \A t \in TargetEntities :
        HasPlayer(t) =>
            LET p == players[TargetPlayer(t)]
                tgt == targets[t]
            IN  /\ tgt.stage <= 1 + Len(p.transitions)
                /\ tgt.ctx = [tgt.ctx_before EXCEPT !.translation =
                                 ExpectedFold(tgt.ctx_before.translation,
                                              ExpectedSequence(p), TargetId(t), tgt.stage)]

\* C17 case: the main animation and two transitions with different weights
\* and seek_times have been blended into t1.
C17_Witness ==
    LET tgt == targets["t1"]
    IN  /\ tgt.done
        /\ Len(tgt.applied) = 3
        /\ tgt.applied[2].weight # tgt.applied[3].weight
        /\ tgt.applied[2].seek_time # tgt.applied[3].seek_time
        /\ tgt.applied[1].seek_time # tgt.applied[3].seek_time
        /\ tgt.ctx.translation # tgt.ctx_before.translation

\* The fields of a target evaluated on its own, from apply call k on.
RECURSIVE evaluated_alone(_, _, _)
evaluated_alone(p, tgt, k) ==
    IF k > Len(p.transitions) THEN tgt.ctx
    ELSE LET cur == animation_at(p, k)
         IN  evaluated_alone(p,
                 [tgt EXCEPT !.ctx = apply_animation(cur.animation, cur.weight, tgt).ctx],
                 k + 1)

\* C18: in whatever order the steps of the targets interleave, a step of one
\* target changes no other target and no player, and a target ends with the
\* fields it gets when it is evaluated alone on the fields it had at the
\* start of the frame.
C18_TargetsAreIndependent ==
    [][(frame.phase = "run" /\ targets' # targets) =>
          /\ players' = players
          /\ \E t \in TargetEntities :
                /\ \A u \in TargetEntities \ {t} : targets'[u] = targets[u]
                /\ (targets'[t].done /\ HasPlayer(t))
                      => targets'[t].ctx =
                            evaluated_alone(players[TargetPlayer(t)],
                                [targets[t] EXCEPT !.ctx = targets[t].ctx_before], 0)]_vars

\* C18 case: t2 has been evaluated completely while t1 and t4 are in the
\* middle of their evaluation.
C18_Witness ==
    /\ targets["t1"].stage = 1
    /\ ~targets["t1"].done
    /\ targets["t4"].stage = 2
    /\ ~targets["t4"].done
    /\ targets["t2"].done
    /\ targets["t2"].stage >= 2
    /\ targets["t2"].ctx # targets["t2"].ctx_before

\* C19: when a target is evaluated, advance has gone through all players of
\* the frame; every animation applied in the frame was applied with the
\* seek_time and weight the player holds after the advance, and no transition
\* removed in the frame is among them.
C19_ApplyReadsAdvancedPlayers ==
    /\ (frame.phase = "run"
            /\ \E t \in TargetEntities : targets[t].stage > 0 \/ targets[t].done)
          => frame.advanced = PlayerEntities
    /\ \A t \in TargetEntities :
          HasPlayer(t) =>
            \A k \in 1..Len(targets[t].applied) :
                LET e == targets[t].applied[k]
                    p == players[TargetPlayer(t)]
                IN  /\ <<TargetPlayer(t), e.id>> \notin frame.removed
                    /\ IF e.id = 0
                       THEN /\ e.seek_time = p.animation.seek_time
                            /\ e.clip = p.animation.animation_clip
                       ELSE \E i \in 1..Len(p.transitions) :
                               /\ p.transitions[i].id = e.id
                               /\ p.transitions[i].animation.seek_time = e.seek_time
                               /\ Rat(p.transitions[i].current_weight, WeightOne) = e.weight

\* C19 case: the advance of the frame removed the older transition of p1 and
\* t1 has been evaluated with the main animation and the transition left.
C19_Witness ==
    /\ frame.phase = "run"
    /\ frame.delta > 0
    /\ <<"p1", 1>> \in frame.removed
    /\ targets["t1"].done
    /\ Len(targets["t1"].applied) = 2
    /\ targets["t1"].applied[2].id = 2

\* C20: advance leaves an animation whose clip is not loaded as it is, and
\* applying it changes no field of the target and emits no diagnostic; a
\* target whose player is not found keeps its fields and gets one
\* diagnostic, and every other target is evaluated to the end in that frame.
C20_UnresolvedReferencesAreSkipped ==
    [][frame.phase = "run" =>
          /\ \A e \in frame'.advanced \ frame.advanced :
                LET p == players[e]
                    q == players'[e]
                IN  /\ ~IsLoaded(p.animation.animation_clip) => q.animation = p.animation
                    /\ \A i \in 1..Len(q.transitions) :
                          ~IsLoaded(q.transitions[i].animation.animation_clip)
                              => \E j \in 1..Len(p.transitions) :
                                    /\ p.transitions[j].id = q.transitions[i].id
                                    /\ p.transitions[j].animation = q.transitions[i].animation
          /\ \A t \in TargetEntities :
                (HasPlayer(t) /\ Len(targets'[t].applied) > Len(targets[t].applied))
                    => LET e == targets'[t].applied[Len(targets'[t].applied)]
                       IN  ~IsLoaded(e.clip)
                              => /\ targets'[t].ctx = targets[t].ctx
                                 /\ targets'[t].errors = targets[t].errors
          /\ \A t \in TargetEntities :
                (~HasPlayer(t) /\ targets'[t] # targets[t])
                    => /\ targets'[t].ctx = targets[t].ctx
                       /\ targets'[t].errors = targets[t].errors + 1
                       /\ \A u \in TargetEntities \ {t} : targets'[u] = targets[u]
          /\ frame'.phase = "update"
                => \A t \in TargetEntities :
                      IF HasPlayer(t)
                      THEN targets[t].stage = 1 + Len(players[TargetPlayer(t)].transitions)
                      ELSE /\ targets[t].errors = 1
                           /\ targets[t].ctx = targets[t].ctx_before]_vars

\* C20 case: a frame with delta > 0 is over; t1 went through a main animation
\* whose clip is not loaded and a transition of a loaded clip, t2 was moved
\* by its main animation and went through a transition whose clip is not
\* loaded, and t3 found no player.
C20_Witness ==
    /\ frame.phase = "update"
    /\ frame.number >= 1
    /\ frame.delta > 0
    /\ targets["t3"].errors = 1
    /\ targets["t3"].ctx = targets["t3"].ctx_before
    /\ Len(targets["t1"].applied) = 2
    /\ targets["t1"].applied[1].clip = DefaultHandle
    /\ IsLoaded(targets["t1"].applied[2].clip)
    /\ Len(targets["t2"].applied) = 2
    /\ targets["t2"].ctx # targets["t2"].ctx_before
    /\ targets["t2"].applied[2].clip = DefaultHandle
    /\ targets["t2"].errors = 0

----------------------------------------------------------------------------
(* Further properties of SpecApply *)

\* The apply call samples curve c: it has one keyframe, or the lookup at the
\* seek_time of the call returns an index.
IsSampled(c) ==
    \/ Len(c.keyframe_timestamps) = 1
    \/ find_current_keyframe(c, apply_seek, overflow_checks).tag = "Some"

\* C21: a Weights curve evaluated for a target without MorphWeights is
\* skipped and a diagnostic is reported, with one keyframe and with several
\* in every interpolation mode; a Rotation, Translation or Scale curve
\* evaluated for a target without a Transform is skipped without diagnostic.
C21_MissingFieldPolicy ==
    (apply_outcome.status = "ok" /\ Len(apply_curves) = 1 /\ IsSampled(apply_curves[1]))
        => LET c == apply_curves[1]
           IN  /\ (c.kind = "Weights" /\ ~target_context.has_morph_weights)
                     => /\ apply_outcome.diagnostics = 1
                        /\ target_context \in ApplyTargets
               /\ (c.kind # "Weights" /\ ~target_context.has_transform)
                     => /\ apply_outcome.diagnostics = 0
                        /\ target_context \in ApplyTargets

----------------------------------------------------------------------------
(* SpecClip: an AnimationClip built by add_curve_to_target calls *)

Max(a, b) == IF a >= b THEN a ELSE b

\* *curve.keyframe_timestamps.last().unwrap_or(&0.0)
last_timestamp_or_zero(c) ==
    IF Len(c.keyframe_timestamps) = 0 THEN 0
    ELSE c.keyframe_timestamps[Len(c.keyframe_timestamps)]

\* Faulty variant for C22: the duration becomes the end of the curve added.
add_curve_to_target_sets_duration(cl, target_id, new_curve) ==
    [duration |-> last_timestamp_or_zero(new_curve),
     curves |-> [cl.curves EXCEPT ![target_id] = Append(@, new_curve)]]

\* AnimationClip::add_curve_to_target
add_curve_to_target(cl, target_id, new_curve) ==
    [duration |-> Max(cl.duration, last_timestamp_or_zero(new_curve)),
     curves |-> [cl.curves EXCEPT ![target_id] = Append(@, new_curve)]]

\* The curves given to the clip: Linear Translation curves over every
\* ascending timestamp list of the bounds, the empty one included.
ClipCurves == {VariableCurve(ts, "Linear", "Translation", 1) : ts \in TimestampSeqs}

\* The number of curves the clip holds.
CurvesAdded == Len(clip_asset.curves["bone"]) + Len(clip_asset.curves["stray"])

InitClip ==
    /\ clip_asset = DefaultAnimationClip
    /\ target_ids = NoTargetIds
    /\ overflow_checks = TRUE
    /\ CurveIdle
    /\ ApplyIdle
    /\ PlayerIdle
    /\ PlaybackIdle
    /\ FrameIdle

AddCurveToTarget(target_id, new_curve) ==
    /\ CurvesAdded < MaxAdded
    /\ clip_asset' = add_curve_to_target(clip_asset, target_id, new_curve)
    /\ UNCHANGED <<target_ids, overflow_checks, curveVars, applyVars, playerVars,
                   playbackVars, frameVars>>

NextClip == \E target_id \in ClipTargetIds, new_curve \in ClipCurves :
                AddCurveToTarget(target_id, new_curve)

SpecClip == InitClip /\ [][NextClip]_vars

\* C22: for add_curve_to_target calls with curves of ascending timestamps,
\* the duration of the clip never decreases from one call to the next, and
\* after each call it is >= every timestamp of every curve added so far and
\* >= 0 (an empty curve counts as 0).
C22_DurationCoversEveryCurve ==
    [][/\ clip_asset'.duration >= clip_asset.duration
       /\ clip_asset'.duration >= 0
       /\ \A id \in ClipTargetIds :
             \A k \in 1..Len(clip_asset'.curves[id]) :
                \A i \in 1..Len(clip_asset'.curves[id][k].keyframe_timestamps) :
                    clip_asset'.duration >= clip_asset'.curves[id][k].keyframe_timestamps[i]]_vars

\* C22 case: a curve that ends earlier than the clip was added after the
\* curve that gave the clip its duration.
C22_Witness ==
    /\ Len(clip_asset.curves["bone"]) = 2
    /\ clip_asset.duration = last_timestamp_or_zero(clip_asset.curves["bone"][1])
    /\ Len(clip_asset.curves["bone"][2].keyframe_timestamps) >= 2
    /\ last_timestamp_or_zero(clip_asset.curves["bone"][2]) < clip_asset.duration

----------------------------------------------------------------------------
(* SpecTargetId: AnimationTargetId::from_names on two name paths *)

\* The bytes names are made of.
NameBytes == {"C", "H"}

\* ANIMATION_TARGET_NAMESPACE.as_bytes()
NamespaceBytes == <<"N">>

\* A Name: a non-empty string of 1..MaxNameLen bytes.
Names == UNION {[1..n -> NameBytes] : n \in 1..MaxNameLen}

\* A path from the animation root to a target.
NamePaths == UNION {[1..n -> Names] : n \in 0..MaxPathLen}

\* The bytes the hasher has been fed after sha1.update(name.as_bytes()) for
\* the names from position k on.
RECURSIVE fed_bytes(_, _, _)
fed_bytes(bytes, names, k) ==
    IF k > Len(names) THEN bytes
    ELSE fed_bytes(bytes \o names[k], names, k + 1)

\* AnimationTargetId::from_names. The id is the digest of the bytes fed to
\* the hasher; the digest (SHA-1 cut to the 16 bytes of a UUID) is taken as
\* collision-free, so an id is modelled by the bytes it is the digest of.
from_names(names) == fed_bytes(NamespaceBytes, names, 1)

InitTargetId ==
    /\ target_ids \in {[computed |-> FALSE, names_a |-> a, names_b |-> b,
                        id_a |-> <<>>, id_b |-> <<>>] : a \in NamePaths, b \in NamePaths}
    /\ clip_asset = DefaultAnimationClip
    /\ overflow_checks = TRUE
    /\ CurveIdle
    /\ ApplyIdle
    /\ PlayerIdle
    /\ PlaybackIdle
    /\ FrameIdle

FromNames ==
    /\ ~target_ids.computed
    /\ target_ids' = [target_ids EXCEPT !.computed = TRUE,
                                        !.id_a = from_names(target_ids.names_a),
                                        !.id_b = from_names(target_ids.names_b)]
    /\ UNCHANGED <<clip_asset, overflow_checks, curveVars, applyVars, playerVars,
                   playbackVars, frameVars>>

NextTargetId == FromNames

SpecTargetId == InitTargetId /\ [][NextTargetId]_vars

\* C23: an AnimationTargetId is unique to the name path it was derived
\* from: two paths get the same id only if they consist of the same names in
\* the same order, and a path always gets the same id.
C23_IdUniqueToPath ==
    target_ids.computed
        => /\ (target_ids.id_a = target_ids.id_b) => (target_ids.names_a = target_ids.names_b)
           /\ (target_ids.names_a = target_ids.names_b) => (target_ids.id_a = target_ids.id_b)

----------------------------------------------------------------------------
(* Further properties of SpecPlayer *)

\* C24: replay sets completions, elapsed and seek_time of the active
\* animation to 0 and leaves its speed, repeat mode and clip, the paused
\* flag and the transition list as they were; after it an animation with
\* repeat Never or Count(n >= 1) is not finished, and the next tick of the
\* unpaused player advances it again.
C24_ReplayRestartsAnimation ==
    [][/\ op'.name = "replay"
            => /\ animation' = [animation EXCEPT !.completions = 0, !.elapsed = 0,
                                                 !.seek_time = 0]
               /\ paused' = paused
               /\ transitions' = transitions
               /\ (animation.repeat.kind = "Never"
                      \/ (animation.repeat.kind = "Count" /\ animation.repeat.n >= 1))
                     => ~is_finished(animation')
       /\ (/\ op.name = "replay"
           /\ op'.name = "advance"
           /\ ~paused
           /\ IsLoaded(animation.animation_clip)
           /\ animation.repeat.kind \in {"Never", "Count"})
            => /\ animation'.elapsed = op'.delta
               /\ op'.delta > 0 => animation' # animation]_vars

\* C24 case: replay was called on an animation that had finished at another
\* speed than 1.0 while a transition was fading.
C24_Witness ==
    /\ op.name = "replay"
    /\ op.before.completions >= 1
    /\ op.before.elapsed > 0
    /\ op.before.speed # 1
    /\ op.before.transitions >= 1
    /\ animation.speed = op.before.speed
    /\ Len(transitions) = op.before.transitions
    /\ animation.completions = 0
    /\ animation.elapsed = 0
    /\ ~is_finished(animation)

\* C28: in every reachable state of a player (ticks with delta >= 0,
\* transition durations > 0) every transition of the list has
\* 0 < current_weight <= 1.0: a transition whose weight reaches 0 or less in
\* an advance is removed in that same advance.
C28_WeightsStayInRange ==
    \A i \in 1..Len(transitions) :
        /\ 0 < transitions[i].current_weight
        /\ transitions[i].current_weight <= WeightOne

\* C28 case: two transitions were made and then one advance ran, in which
\* the older one reached weight 0 and was removed while the younger one stays
\* with part of its weight.
C28_Witness ==
    /\ op.name = "advance"
    /\ op.delta > 0
    /\ steps = 3
    /\ born = 2
    /\ Len(transitions) = 1
    /\ transitions[1].id = 2
    /\ 0 < transitions[1].current_weight
    /\ transitions[1].current_weight < WeightOne

----------------------------------------------------------------------------
(* The evaluator at the end of a clip (SpecApply) *)

\* The clip that holds curves[1..k] for one target, built by
\* add_curve_to_target from the default clip.
RECURSIVE clip_from_curves(_, _)
clip_from_curves(curves, k) ==
    IF k = 0 THEN DefaultAnimationClip
    ELSE add_curve_to_target(clip_from_curves(curves, k - 1), "bone", curves[k])

\* C30: a forward animation finished under Never or Count(n) has a
\* seek_time at or past the clip duration, hence at or past the last
\* timestamp of every curve of the clip; an apply call at such a seek_time
\* writes nothing to the target for curves with two or more keyframes, in
\* every interpolation mode (every lookup returns None), and the target
\* keeps the values of its fields.
C30_FinishedClipWritesNothing ==
    [][(/\ \A k \in 1..Len(apply_curves) : Len(apply_curves[k].keyframe_timestamps) >= 2
        /\ apply_seek >= clip_from_curves(apply_curves, Len(apply_curves)).duration)
          => /\ \A k \in 1..Len(apply_curves) :
                    find_current_keyframe(apply_curves[k], apply_seek, overflow_checks) = None
             /\ apply_outcome'.status = "ok"
             /\ target_context' = target_context]_vars

----------------------------------------------------------------------------
(* Further properties of SpecCurve *)

\* C25: find_current_keyframe returns None whenever seek_time is at or past
\* the second-to-last timestamp of the curve, and whenever seek_time is
\* before the first timestamp.
C25_NoneFromSecondToLastTimestamp ==
    (/\ result /= Unset
     /\ NumTimestamps >= 2
     /\ \/ seek >= Timestamps[NumTimestamps - 1]
        \/ seek < Timestamps[1])
        => result = None

\* C31: for a curve with zero timestamps and zero keyframes,
\* find_current_keyframe returns None for every seek_time, without underflow
\* in keyframes.len() - 1, so that evaluating a clip that holds such a curve
\* does not fail and the curve contributes nothing to the target.
C31_EmptyCurveLookupIsNone ==
    (/\ result /= Unset
     /\ NumTimestamps = 0
     /\ KeyframesLen(curve) = 0)
        => result = None

----------------------------------------------------------------------------
(* SpecTween: one apply call of a Linear Translation curve with two or more *)
(* keyframes on a target whose translation has any of several values.       *)
(* Times are in quarters of a second: the timestamps 1.0, 2.0, 3.0, 4.0 are *)
(* 4, 8, 12, 16 and the seek_time 2.5 is 10.                                *)

MaxTweenKeyframes == 4

TweenTimestamps(n) == [i \in 1..n |-> 4 * i]

\* Keyframe values that do not lie on one line: 1, 4, 9, 16, ...
TweenValue(k) == k * k

TweenCurve(n) ==
    [VariableCurve(TweenTimestamps(n), "Linear", "Translation", 1)
        EXCEPT !.keyframes = [k \in 1..n |-> TweenValue(k)]]

TweenSeekTimes == 0..(4 * MaxTweenKeyframes + 3)

TweenWeights == {<<0, 1>>, <<1, 4>>, <<1, 2>>, <<1, 1>>}

\* The translation the target has before the call.
TweenTranslations == {RInt(0), RInt(5), RInt(-2)}

TweenTargets ==
    {[TargetContext(TRUE, has_morph_weights, MaxTargetCount) EXCEPT !.translation = cur] :
        has_morph_weights \in BOOLEAN, cur \in TweenTranslations}

InitTween ==
    /\ apply_curves \in {<<TweenCurve(n)>> : n \in 2..MaxTweenKeyframes}
    /\ apply_seek \in TweenSeekTimes
    /\ apply_weight \in TweenWeights
    /\ target_context \in TweenTargets
    /\ apply_outcome = ApplyIdleOutcome
    /\ overflow_checks = TRUE
    /\ CurveIdle
    /\ PlayerIdle
    /\ PlaybackIdle
    /\ FrameIdle
    /\ AssetIdle

NextTween == ApplyAnimation

SpecTween == InitTween /\ [][NextTween]_vars

\* C26: for a Linear Translation curve with at least 2 keyframes and a
\* seek_time in [t_i, t_i+1), apply with weight w sets the translation to
\* cur + w * (s - cur), where cur is the translation before the call and
\* s = k_i + (k_i+1 - k_i) * (seek_time - t_i) / (t_i+1 - t_i), the factor
\* lying in [0, 1]; with timestamps 1, 2, 3, 4 and seek_time 2.5 the
\* keyframe index is 1 and the factor 0.5; with w = 1.0 the translation is
\* exactly s whatever cur was.
C26_LinearTranslationTween ==
    [][\A i \in 1..(Len(apply_curves[1].keyframe_timestamps) - 1) :
        LET c == apply_curves[1]
            t_i == c.keyframe_timestamps[i]
            t_next == c.keyframe_timestamps[i + 1]
            k_i == RInt(c.keyframes[i])
            k_next == RInt(c.keyframes[i + 1])
            factor == Rat(apply_seek - t_i, t_next - t_i)
            s == RAdd(k_i, RMul(RSub(k_next, k_i), factor))
            cur == target_context.translation
        IN  (t_i <= apply_seek /\ apply_seek < t_next)
                => /\ apply_outcome'.status = "ok"
                   /\ factor[1] >= 0 /\ factor[1] <= factor[2]
                   /\ inverse_lerp(RInt(t_i), RInt(t_next), RInt(apply_seek)) = factor
                   /\ target_context' =
                        [target_context EXCEPT
                            !.translation = RAdd(cur, RMul(apply_weight, RSub(s, cur)))]
                   /\ apply_weight = RInt(1) => target_context'.translation = s
                   /\ (c.keyframe_timestamps = <<4, 8, 12, 16>> /\ apply_seek = 10)
                        => /\ find_current_keyframe(c, apply_seek, overflow_checks) = Some(1)
                           /\ i = 2
                           /\ factor = <<1, 2>>]_vars

\* C26 case: timestamps 1, 2, 3, 4 at seek_time 2.5 with weight 0.5 on a
\* target whose translation was 5: the sample is 4 + (9 - 4) * 0.5 = 6.5 and
\* the translation becomes 5 + 0.5 * (6.5 - 5) = 5.75.
C26_Witness ==
    /\ apply_outcome.status = "ok"
    /\ apply_curves[1].keyframe_timestamps = <<4, 8, 12, 16>>
    /\ apply_curves[1].interpolation = "Linear"
    /\ apply_curves[1].kind = "Translation"
    /\ apply_seek = 10
    /\ apply_weight = <<1, 2>>
    /\ target_context.translation = <<23, 4>>

----------------------------------------------------------------------------
(* Further properties of SpecPlayback *)

C29_CompletionsBounded ==
    (playing.repeat.kind = "Never" \/ (playing.repeat.kind = "Count" /\ playing.repeat.n >= 1))
        => playing.completions <= PassesAsked(playing.repeat)

\* C29 case: update was called with a tick that passes the end on an
\* animation that had made its 2 passes of Count(2), and counted nothing.
C29_Witness ==
    /\ update_call.called
    /\ update_call.before.repeat = RepeatCount(2)
    /\ update_call.before.completions = 2
    /\ update_call.before.speed > 0
    /\ update_call.delta > 0
    /\ playing.completions = 2

----------------------------------------------------------------------------
(* SpecPlayerRun: an unpaused player whose loaded clip runs to its end under *)
(* ticks of a positive delta within |delta * speed| <= clip_duration. While  *)
(* the animation runs only ticks happen; on a finished animation start,      *)
(* play, set_repeat, seek_to and replay are called as well.                  *)
(* advance_animations runs in every frame of the schedule, hence the weak    *)
(* fairness of the tick.                                                     *)

LoadedHandles == {h \in Handles : IsLoaded(h)}

\* Never and Count(n): the policies under which an animation can finish.
FinitePolicies == {RepeatNever} \cup {RepeatCount(n) : n \in 0..MaxCount}

\* The player after start(h), set_speed(nonzero) and set_repeat. The time
\* unit is the least delta of a tick, so the speed is one at which a tick of
\* one unit stays within |delta * speed| <= clip_duration.
InitPlayerRun ==
    /\ paused = FALSE
    /\ \E h \in LoadedHandles, speed \in PlaybackSpeeds, repeat \in FinitePolicies :
          /\ Abs(speed) <= clip_duration_of(h)
          /\ animation = [fresh_animation(h) EXCEPT !.speed = speed, !.repeat = repeat]
    /\ transitions = <<>>
    /\ op = NoOp
    /\ born = 0
    /\ steps = 0
    /\ overflow_checks = TRUE
    /\ CurveIdle
    /\ ApplyIdle
    /\ PlaybackIdle
    /\ FrameIdle
    /\ AssetIdle

\* No run of the animation takes its elapsed time this far: at most
\* MaxCount + 1 passes, each of less than the clip duration plus one tick.
RunMaxElapsed == (MaxCount + 1) * (MaxClips + 1 + MaxDelta)

\* advance_animations in a frame of delta > 0 time units.
RunTick(delta) ==
    /\ delta > 0
    /\ animation.elapsed + delta <= RunMaxElapsed
    /\ InContract(animation, delta, ActiveClipDuration)
    /\ Advance(delta)

RunStart(handle) == is_finished(animation) /\ Start(handle)

RunPlay(handle) == is_finished(animation) /\ Play(handle)

RunSetRepeat(repeat) == is_finished(animation) /\ SetRepeat(repeat)

RunSeekTo(seek_time) == is_finished(animation) /\ SeekTo(seek_time)

RunReplay == is_finished(animation) /\ Replay

\* What no step of this specification changes.
runUnchanged == <<steps, overflow_checks, curveVars, applyVars, playbackVars, frameVars,
                  assetVars>>

\* The frame: one tick of some delta.
RunTicks == (\E d \in Deltas : RunTick(d)) /\ UNCHANGED runUnchanged

RunOperations ==
    /\ \/ \E h \in LoadedHandles : RunStart(h)
       \/ \E h \in LoadedHandles : RunPlay(h)
       \/ \E r \in FinitePolicies : RunSetRepeat(r)
       \/ \E t \in SeekToTimes : RunSeekTo(t)
       \/ RunReplay
    /\ UNCHANGED runUnchanged

NextPlayerRun == RunTicks \/ RunOperations

SpecPlayerRun == InitPlayerRun /\ [][NextPlayerRun]_vars /\ WF_vars(RunTicks)

\* C32: if the player stays unpaused, its clip is loaded with a duration
\* above 0, its speed is nonzero and unchanged, its repeat policy is Never or
\* Count(n) and every tick has a delta of at least a fixed positive amount
\* with |delta * speed| <= clip_duration, the active animation eventually
\* becomes finished; it stays finished until a start, a play of another
\* clip, a replay or a change of the repeat policy.
C32_EventuallyFinishedAndStaysSo ==
    /\ [](~is_finished(animation) => <>is_finished(animation))
    /\ [][(is_finished(animation) /\ ~is_finished(animation'))
            => \/ op'.name \in {"start", "replay", "set_repeat"}
               \/ /\ op'.name = "play"
                  /\ op'.clip # animation.animation_clip]_vars

\* C32 case: a reverse animation under Count(2) has made its two passes in
\* the ticks and is finished.
C32_Witness ==
    /\ op.name = "advance"
    /\ ~paused
    /\ animation.speed < 0
    /\ animation.repeat = RepeatCount(2)
    /\ animation.completions = 2
    /\ animation.elapsed > 0
    /\ is_finished(animation)

====
